---- MODULE Spec2Model ----
(***************************************************************************)
(* Model of plugins/GenWeightsTableProducer.cc: the per-stream Counter,    *)
(* the run-header scan of globalBeginRun that builds the                   *)
(* DynamicWeightChoice, the per-event table filling of produce and         *)
(* fillLHEWeightTables, and the stream/run lifecycle hooks that merge the  *)
(* stream Counters into the run Counter and emit the run table.            *)
(*                                                                         *)
(* Conventions.  A std::string is a sequence of one-character strings, so  *)
(* that lexicographic comparison, concatenation and stream writes are      *)
(* computed.  Weights are integers standing for exact real numbers; the    *)
(* inputs are chosen so that every quotient wgt/originalXWGTUP is exact.   *)
(* An optional value is a sequence of length 0 or 1.  A header line is     *)
(* represented by the regular expression of lines 226-229 it matches and   *)
(* the capture groups of that match.  The narrowing of a double to the     *)
(* float of a table column is exact on the values used.  The debug_ and    *)
(* debugRun_ flags only select printing and are left out.                  *)
(***************************************************************************)
EXTENDS Integers, Sequences, FiniteSets, Bags, TLC

VARIABLES
    pc,            \* position of the framework in the job / run lifecycle
    cfg,           \* preferredPDFLHAIDs_, namedWeightIDs_, namedWeightLabels_
    hasIssuedWarning_,  \* the atomic latch hasIssuedWarning_
    lheRunInfo,    \* the run's LHERunInfoProduct headers (empty: not in the run)
    weightChoice,  \* RunCache: the DynamicWeightChoice of the run
    parsed,        \* locals of globalBeginRun at its return
    streamCache,   \* StreamCache: stream -> optional Counter
    spc,           \* position of each stream in the run
    runCounter,    \* RunSummaryCache: optional Counter
    events,        \* bag of the events processed so far in the run
    lastEvent,     \* optional: stream, event and the tables put by the last produce
    warnings,      \* number of "No LHEEventProduct" warnings logged in the run
    lastMerge,     \* optional: vector lengths seen by the last Counter::merge
    crashed,       \* the process died on an out-of-bounds read
    runTable       \* optional: the MergableCounterTable put at run end

vars == <<pc, cfg, hasIssuedWarning_, lheRunInfo, weightChoice, parsed, streamCache,
          spc, runCounter, events, lastEvent, warnings, lastMerge, crashed, runTable>>

----------------------------------------------------------------------------
(* Bounds of the model *)

NStreams == 2
MaxEvents == 3
MaxWeights == 2
MaxLines == 5

Streams == 1..NStreams

----------------------------------------------------------------------------
(* Strings *)

Digits == <<"0", "1", "2", "3", "4", "5", "6", "7", "8", "9">>

\* value of a decimal digit character; the order of the digit characters
DigitVal(c) == CHOOSE d \in 0..9 : Digits[d + 1] = c

\* operator<<(unsigned): the decimal text of n
RECURSIVE Dec(_)
Dec(n) == IF n < 10 THEN <<Digits[n + 1]>> ELSE Dec(n \div 10) \o <<Digits[(n % 10) + 1]>>

\* std::string::operator< on strings of digits: lexicographic, a proper prefix first
RECURSIVE StrLess(_, _)
StrLess(a, b) ==
    IF b = <<>> THEN FALSE
    ELSE IF a = <<>> THEN TRUE
    ELSE IF Head(a) = Head(b) THEN StrLess(Tail(a), Tail(b))
    ELSE DigitVal(Head(a)) < DigitVal(Head(b))

\* str() of a std::stringstream constructed from init and then written from
\* position 0 with the text written: the writes overwrite the initial text
StreamStr(init, written) ==
    IF Len(written) >= Len(init) THEN written
    ELSE written \o SubSeq(init, Len(written) + 1, Len(init))

ScaleDocInit == <<"L", "H", "E", " ", "s", "c", "a", "l", "e", " ", "v", "a", "r", "i", "a", "t", "i", "o", "n", " ", "w", "e", "i", "g", "h", "t", "s", " ", "(", "w", "_", "v", "a", "r", " ", "/", " ", "w", "_", "n", "o", "m", "i", "n", "a", "l", ")", ";", " ">>
PdfDocInit == <<"L", "H", "E", " ", "p", "d", "f", " ", "v", "a", "r", "i", "a", "t", "i", "o", "n", " ", "w", "e", "i", "g", "h", "t", "s", " ", "(", "w", "_", "v", "a", "r", " ", "/", " ", "w", "_", "n", "o", "m", "i", "n", "a", "l", ")", " ", "f", "o", "r", " ", "L", "H", "A", " ", "I", "D", "s", " ">>

\* the sequences over S of length at most n
SeqsUpTo(S, n) == UNION {[1..m -> S] : m \in 0..n}

----------------------------------------------------------------------------
(* Counter *)

Zeros(n) == [i \in 1..n |-> 0]

Counter ==
    [num |-> 0, sumw |-> 0, sumw2 |-> 0, sumPDF |-> <<>>, sumScale |-> <<>>, sumNamed |-> <<>>]

clear_KeepVectors(c) == [c EXCEPT !.num = 0, !.sumw = 0, !.sumw2 = 0]

clear(c) ==
    [c EXCEPT !.num = 0, !.sumw = 0, !.sumw2 = 0,
              !.sumPDF = <<>>, !.sumScale = <<>>, !.sumNamed = <<>>]

incGenOnly_NoCount(c, w) == [c EXCEPT !.sumw = @ + w, !.sumw2 = @ + (w * w)]

incGenOnly(c, w) == [c EXCEPT !.num = @ + 1, !.sumw = @ + w, !.sumw2 = @ + (w * w)]

\* one "if (!wX.empty()) { ... }" block of incLHE
AddVariation(sum, w0, wX) ==
    IF wX = <<>> THEN sum
    ELSE LET s == IF sum = <<>> THEN Zeros(Len(wX)) ELSE sum
         IN  [i \in 1..Len(s) |-> IF i <= Len(wX) THEN s[i] + (w0 * wX[i]) ELSE s[i]]

incLHE(c, w0, wScale, wPDF, wNamed) ==
    LET g == incGenOnly(c, w0)
    IN  [g EXCEPT !.sumScale = AddVariation(@, w0, wScale),
                  !.sumPDF = AddVariation(@, w0, wPDF),
                  !.sumNamed = AddVariation(@, w0, wNamed)]

\* the resize of one vector in merge
MergeResize(mine, other) ==
    IF mine = <<>> /\ other # <<>> THEN Zeros(Len(other)) ELSE mine

\* the element-wise loop of merge over one vector; a read of other[i] with
\* i past the end of other is undefined and yields the value junk
MergeAdd(mine, other, junk) ==
    [i \in 1..Len(mine) |-> mine[i] + (IF i <= Len(other) THEN other[i] ELSE junk)]

\* merge reads past the end of one of other's vectors
MergeReadsPastEnd(c, other) ==
    \/ Len(MergeResize(c.sumScale, other.sumScale)) > Len(other.sumScale)
    \/ Len(MergeResize(c.sumPDF, other.sumPDF)) > Len(other.sumPDF)
    \/ Len(MergeResize(c.sumNamed, other.sumNamed)) > Len(other.sumNamed)

merge_OverwriteSums(c, other, junk) ==
    [c EXCEPT !.num = @ + other.num, !.sumw = other.sumw, !.sumw2 = other.sumw2,
              !.sumScale = MergeAdd(MergeResize(@, other.sumScale), other.sumScale, junk),
              !.sumPDF = MergeAdd(MergeResize(@, other.sumPDF), other.sumPDF, junk),
              !.sumNamed = MergeAdd(MergeResize(@, other.sumNamed), other.sumNamed, junk)]

merge(c, other, junk) ==
    [c EXCEPT !.num = @ + other.num, !.sumw = @ + other.sumw, !.sumw2 = @ + other.sumw2,
              !.sumScale = MergeAdd(MergeResize(@, other.sumScale), other.sumScale, junk),
              !.sumPDF = MergeAdd(MergeResize(@, other.sumPDF), other.sumPDF, junk),
              !.sumNamed = MergeAdd(MergeResize(@, other.sumNamed), other.sumNamed, junk)]

\* values an out-of-bounds read of a long double can deliver
Junk == {0, 7}

----------------------------------------------------------------------------
(* Header lines: the regular expressions of globalBeginRun *)

\* a line matching weightgroup, with capture group 2 (the name)
OpenLine(name) ==
    [k |-> "weightgroup", name |-> name, id |-> <<>>, muR |-> <<>>, muF |-> <<>>, lha |-> <<>>]

\* a line matching endweightgroup
CloseLine ==
    [k |-> "endweightgroup", name |-> "", id |-> <<>>, muR |-> <<>>, muF |-> <<>>, lha |-> <<>>]

\* a line matching scalew, with capture groups 1 (id), 3 (muR) and 4 (muF)
ScaleLine(id, muR, muF) ==
    [k |-> "scalew", name |-> "", id |-> id, muR |-> muR, muF |-> muF, lha |-> <<>>]

\* a line matching pdfw, with capture groups 1 (id) and 2 (the LHA id)
PdfLine(id, lha) ==
    [k |-> "pdfw", name |-> "", id |-> id, muR |-> <<>>, muF |-> <<>>, lha |-> lha]

\* a line matching none of the four expressions
TextLine ==
    [k |-> "text", name |-> "", id |-> <<>>, muR |-> <<>>, muF |-> <<>>, lha |-> <<>>]

\* capture group 2 of scalew: the inner text "muR=... muF=..."
LabelOf(line) == <<"m", "u", "R", "=">> \o line.muR \o <<" ", "m", "u", "F", "=">> \o line.muF

\* std::stoi on a string of digits
RECURSIVE stoi(_)
stoi(t) == IF t = <<>> THEN 0 ELSE 10 * stoi(SubSeq(t, 1, Len(t) - 1)) + DigitVal(t[Len(t)])

\* std::stof on DIGITS or DIGITS.D with D in {0, 5}; a float is held as its
\* number of halves, which is exact for these texts
stof(t) ==
    IF Len(t) >= 3 /\ t[Len(t) - 1] = "."
    THEN 2 * stoi(SubSeq(t, 1, Len(t) - 2)) + (IF t[Len(t)] = "5" THEN 1 ELSE 0)
    ELSE 2 * stoi(t)

\* ScaleVarWeight(id, text, muR, muF)
ScaleVarWeight(line) ==
    [wid |-> line.id, label |-> LabelOf(line), scales |-> <<stof(line.muR), stof(line.muF)>>]

\* std::pair<float,float>::operator<
PairLess(p, q) == p[1] < q[1] \/ (p[1] = q[1] /\ p[2] < q[2])

\* ScaleVarWeight::operator<
ScaleLess(a, b) ==
    IF a.scales = b.scales THEN StrLess(a.wid, b.wid) ELSE PairLess(a.scales, b.scales)

\* std::sort(scaleVariationIDs.begin(), scaleVariationIDs.end()).  Elements that
\* compare equivalent have the same wid and scales and can differ in label
\* only; std::sort leaves their relative order open, and this insertion puts
\* the earlier collected one first.
RECURSIVE SortScale(_)
SortScale(s) ==
    IF s = <<>> THEN <<>>
    ELSE LET rest == SortScale(Tail(s))
             x == Head(s)
             before == {i \in 0..Len(rest) : \A j \in 1..i : ScaleLess(rest[j], x)}
             p == CHOOSE i \in before : \A j \in before : j <= i
         IN  SubSeq(rest, 1, p) \o <<x>> \o SubSeq(rest, p + 1, Len(rest))

\* PDFSetWeights(wid, lhaID)
PDFSetWeights(wid, lhaID) == [wids |-> <<wid>>, lhaIDs |-> <<lhaID, lhaID>>]

MaybeAddAccepts_OffByOne(g, lhaID) == lhaID = g.lhaIDs[2]

\* PDFSetWeights::maybe_add returns true
MaybeAddAccepts(g, lhaID) == lhaID = g.lhaIDs[2] + 1

\* PDFSetWeights::maybe_add, when it returns true
maybe_add(g, wid, lhaID) ==
    [g EXCEPT !.lhaIDs = <<@[1], @[2] + 1>>, !.wids = Append(@, wid)]

\* lines 263-265: extend the last group or start a new one
AddPdfWeight(groups, wid, lhaID) ==
    IF groups # <<>> /\ MaybeAddAccepts(groups[Len(groups)], lhaID)
    THEN [groups EXCEPT ![Len(groups)] = maybe_add(@, wid, lhaID)]
    ELSE Append(groups, PDFSetWeights(wid, lhaID))

----------------------------------------------------------------------------
(* The scan of one initrwgt block, one loop iteration per step.  iLine is   *)
(* the 0-based index of the code; loop names the loop that is iterating.    *)

ScanStart(sv, pdf) == [iLine |-> 0, loop |-> "outer", done |-> FALSE, sv |-> sv, pdf |-> pdf]

InnerLoopOf(name) ==
    IF name = "scale_variation" THEN "scale"
    ELSE IF name = "PDF_variation" THEN "pdf"
    ELSE "other"

\* one iteration of the loop at line 238
OuterStep(lines, st) ==
    IF st.iLine >= Len(lines) THEN [st EXCEPT !.done = TRUE]
    ELSE LET line == lines[st.iLine + 1]
         IN  IF line.k = "weightgroup"
             THEN [st EXCEPT !.loop = InnerLoopOf(line.name), !.iLine = @ + 1]
             ELSE [st EXCEPT !.iLine = @ + 1]

\* leaving an inner loop by break, or by its condition, then ++iLine of line 238
LeaveInner(st, iLine) == [st EXCEPT !.loop = "outer", !.iLine = iLine + 1]

InnerStep_NoRewind(lines, st) ==
    IF st.iLine >= Len(lines) THEN LeaveInner(st, st.iLine)
    ELSE LET line == lines[st.iLine + 1]
         IN  IF st.loop = "scale" /\ line.k = "scalew"
             THEN [st EXCEPT !.sv = Append(@, ScaleVarWeight(line)), !.iLine = @ + 1]
             ELSE IF st.loop = "pdf" /\ line.k = "pdfw"
             THEN [st EXCEPT !.pdf = AddPdfWeight(@, line.id, stoi(line.lha)), !.iLine = @ + 1]
             ELSE IF line.k = "endweightgroup" THEN LeaveInner(st, st.iLine)
             ELSE IF line.k = "weightgroup" THEN LeaveInner(st, st.iLine)
             ELSE [st EXCEPT !.iLine = @ + 1]

InnerStep_NoRewindInOther(lines, st) ==
    IF st.iLine >= Len(lines) THEN LeaveInner(st, st.iLine)
    ELSE LET line == lines[st.iLine + 1]
         IN  IF st.loop = "scale" /\ line.k = "scalew"
             THEN [st EXCEPT !.sv = Append(@, ScaleVarWeight(line)), !.iLine = @ + 1]
             ELSE IF st.loop = "pdf" /\ line.k = "pdfw"
             THEN [st EXCEPT !.pdf = AddPdfWeight(@, line.id, stoi(line.lha)), !.iLine = @ + 1]
             ELSE IF line.k = "endweightgroup" THEN LeaveInner(st, st.iLine)
             ELSE IF line.k = "weightgroup"
             THEN LeaveInner(st, IF st.loop = "other" THEN st.iLine ELSE st.iLine - 1)
             ELSE [st EXCEPT !.iLine = @ + 1]

InnerStep_AnyGroup(lines, st) ==
    IF st.iLine >= Len(lines) THEN LeaveInner(st, st.iLine)
    ELSE LET line == lines[st.iLine + 1]
         IN  IF line.k = "scalew"
             THEN [st EXCEPT !.sv = Append(@, ScaleVarWeight(line)), !.iLine = @ + 1]
             ELSE IF line.k = "pdfw"
             THEN [st EXCEPT !.pdf = AddPdfWeight(@, line.id, stoi(line.lha)), !.iLine = @ + 1]
             ELSE IF line.k = "endweightgroup" THEN LeaveInner(st, st.iLine)
             ELSE IF line.k = "weightgroup" THEN LeaveInner(st, st.iLine - 1)
             ELSE [st EXCEPT !.iLine = @ + 1]

\* one iteration of the loop at line 243, 258 or 276
InnerStep(lines, st) ==
    IF st.iLine >= Len(lines) THEN LeaveInner(st, st.iLine)
    ELSE LET line == lines[st.iLine + 1]
         IN  IF st.loop = "scale" /\ line.k = "scalew"
             THEN [st EXCEPT !.sv = Append(@, ScaleVarWeight(line)), !.iLine = @ + 1]
             ELSE IF st.loop = "pdf" /\ line.k = "pdfw"
             THEN [st EXCEPT !.pdf = AddPdfWeight(@, line.id, stoi(line.lha)), !.iLine = @ + 1]
             ELSE IF line.k = "endweightgroup" THEN LeaveInner(st, st.iLine)
             ELSE IF line.k = "weightgroup" THEN LeaveInner(st, st.iLine - 1)
             ELSE [st EXCEPT !.iLine = @ + 1]

ScanStep(lines, st) == IF st.loop = "outer" THEN OuterStep(lines, st) ELSE InnerStep(lines, st)

\* lines 238-289 on one block, from the weights collected so far
RECURSIVE ScanFrom(_, _)
ScanFrom(lines, st) == IF st.done THEN st ELSE ScanFrom(lines, ScanStep(lines, st))

ScanBlock(lines, sv, pdf) == ScanFrom(lines, ScanStart(sv, pdf))

\* the loop states lines 238-289 pass through from st, one per iteration, up
\* to the state in which the outer loop has ended or fuel iterations are done
RECURSIVE ScanTrace(_, _, _)
ScanTrace(lines, st, fuel) ==
    IF st.done \/ fuel = 0 THEN <<st>>
    ELSE <<st>> \o ScanTrace(lines, ScanStep(lines, st), fuel - 1)

----------------------------------------------------------------------------
(* Lines 292-322: what is done after the scan of each initrwgt block *)

EmptyChoice ==
    [scaleWeightIDs |-> <<>>, scaleWeightsDoc |-> <<>>, pdfWeightIDs |-> <<>>, pdfWeightsDoc |-> <<>>]

\* the text written to scaleDoc by the loop at line 296
RECURSIVE ScaleDocWritten(_, _)
ScaleDocWritten(sorted, n) ==
    IF n = 0 THEN <<>>
    ELSE ScaleDocWritten(sorted, n - 1)
         \o (IF n - 1 > 0 THEN <<";", " ">> ELSE <<>>)
         \o <<"[">> \o Dec(n - 1) \o <<"]", " ", "i", "s", " ">> \o sorted[n].label

ScaleResolution(wc, sorted) ==
    [wc EXCEPT !.scaleWeightIDs = @ \o [i \in 1..Len(sorted) |-> sorted[i].wid],
               !.scaleWeightsDoc =
                   IF sorted # <<>>
                   THEN StreamStr(ScaleDocInit, ScaleDocWritten(sorted, Len(sorted)))
                   ELSE @]

\* the (preferred index, group index) pairs at which line 315 does not continue
PdfMatches(preferred, groups) ==
    {m \in (1..Len(preferred)) \X (1..Len(groups)) : groups[m[2]].lhaIDs[1] = preferred[m[1]]}

PdfFirstMatch_GroupOrder(preferred, groups) ==
    LET M == PdfMatches(preferred, groups)
    IN  CHOOSE m \in M : \A o \in M : m[2] < o[2] \/ (m[2] = o[2] /\ m[1] <= o[1])

\* the first match of the nested loops at lines 313-322
PdfFirstMatch(preferred, groups) ==
    LET M == PdfMatches(preferred, groups)
    IN  CHOOSE m \in M : \A o \in M : m[1] < o[1] \/ (m[1] = o[1] /\ m[2] <= o[2])

PdfResolution(wc, preferred, groups) ==
    IF PdfMatches(preferred, groups) = {} THEN wc
    ELSE LET pw == groups[PdfFirstMatch(preferred, groups)[2]]
         IN  [wc EXCEPT !.pdfWeightIDs = pw.wids,
                        !.pdfWeightsDoc =
                            StreamStr(PdfDocInit,
                                      Dec(pw.lhaIDs[1]) \o <<" ", "-", " ">>
                                          \o Dec(pw.lhaIDs[2]) \o <<"\n">>)]

\* the body of the loop at line 231 for one header block
HeaderBlockStep(acc, block, preferred) ==
    IF block.tag # "initrwgt" THEN acc
    ELSE LET scanned == ScanBlock(block.lines, acc.sv, acc.pdf)
             sorted == SortScale(scanned.sv)
         IN  [sv |-> sorted, pdf |-> scanned.pdf,
              wc |-> PdfResolution(ScaleResolution(acc.wc, sorted), preferred, scanned.pdf)]

RECURSIVE HeaderLoop(_, _, _)
HeaderLoop(acc, blocks, preferred) ==
    IF blocks = <<>> THEN acc
    ELSE HeaderLoop(HeaderBlockStep(acc, Head(blocks), preferred), Tail(blocks), preferred)

\* globalBeginRun: info is the optional list of header blocks of the run
globalBeginRunResult(info, preferred) ==
    LET start == [sv |-> <<>>, pdf |-> <<>>, wc |-> EmptyChoice]
    IN  IF info = <<>> THEN start ELSE HeaderLoop(start, info[1], preferred)

----------------------------------------------------------------------------
(* produce and fillLHEWeightTables *)

\* weight.wgt / w0 on exact numbers; the inputs make every quotient exact
Ratio(wgt, w0) == wgt \div w0

\* std::find(ids.begin(), ids.end(), id) - ids.begin() + 1, or 0 for ids.end()
find(ids, id) ==
    IF \E i \in 1..Len(ids) : ids[i] = id
    THEN CHOOSE i \in 1..Len(ids) : ids[i] = id /\ \A j \in 1..(i - 1) : ids[j] # id
    ELSE 0

\* the effect of the loop at line 185 on one of wScale, wPDF, wNamed
RECURSIVE Lookup(_, _, _, _)
Lookup(w, ids, weights, w0) ==
    IF weights = <<>> THEN w
    ELSE LET weight == Head(weights)
             m == find(ids, weight.id)
         IN  Lookup(IF m # 0 THEN [w EXCEPT ![m] = Ratio(weight.wgt, w0)] ELSE w,
                    ids, Tail(weights), w0)

Ones(n) == [i \in 1..n |-> 1]

\* FlatTable(size, name, singleton) with the columns added to it
FlatTable(size, name, singleton, columns) ==
    [name |-> name, size |-> size, singleton |-> singleton, columns |-> columns]

Column(name, values, doc) == [name |-> name, values |-> values, doc |-> doc]

\* the doc string of a named column, line 207
NamedDoc(id) ==
    <<"L", "H", "E", " ", "w", "e", "i", "g", "h", "t", " ", "f", "o", "r", " ", "i", "d", " ">>
        \o id

\* fillLHEWeightTables: the three tables and the updated Counter
fillLHEWeightTables(counter, wc, config, genWeight, lheProd) ==
    LET w0 == lheProd.originalXWGTUP
        wScale == Lookup(Ones(Len(wc.scaleWeightIDs)), wc.scaleWeightIDs, lheProd.weights, w0)
        wPDF == Lookup(Ones(Len(wc.pdfWeightIDs)), wc.pdfWeightIDs, lheProd.weights, w0)
        wNamed == Lookup(Ones(Len(config.namedWeightIDs)), config.namedWeightIDs,
                         lheProd.weights, w0)
    IN  [outScale |-> FlatTable(Len(wScale), "LHEScaleWeight", FALSE,
                                <<Column("", wScale, wc.scaleWeightsDoc)>>),
         outPdf |-> FlatTable(Len(wPDF), "LHEPdfWeight", FALSE,
                              <<Column("", wPDF, wc.pdfWeightsDoc)>>),
         outNamed |-> FlatTable(1, "LHEWeight", TRUE,
                                <<Column("originalXWGTUP", <<w0>>, <<>>)>>
                                    \o [i \in 1..Len(wNamed) |->
                                            Column(config.namedWeightLabels[i], <<wNamed[i]>>,
                                                   NamedDoc(config.namedWeightIDs[i]))]),
         counter |-> incLHE(counter, genWeight, wScale, wPDF, wNamed)]

DummyTables_ResetVectors(counter) ==
    [outScale |-> FlatTable(1, "LHEScaleWeights", TRUE, <<>>),
     outPdf |-> FlatTable(1, "LHEPdfWeights", TRUE, <<>>),
     outNamed |-> FlatTable(1, "LHENamedWeights", TRUE, <<>>),
     counter |-> [counter EXCEPT !.sumPDF = <<>>, !.sumScale = <<>>, !.sumNamed = <<>>]]

\* lines 155-157: the tables of an event without LHEEventProduct
DummyTables(counter) ==
    [outScale |-> FlatTable(1, "LHEScaleWeights", TRUE, <<>>),
     outPdf |-> FlatTable(1, "LHEPdfWeights", TRUE, <<>>),
     outNamed |-> FlatTable(1, "LHENamedWeights", TRUE, <<>>),
     counter |-> counter]

\* the tables of produce and the Counter after it
ProduceResult(counter, wc, config, ev) ==
    IF ev.lhe # <<>>
    THEN fillLHEWeightTables(counter, wc, config, ev.weight, ev.lhe[1])
    ELSE DummyTables(incGenOnly(counter, ev.weight))

\* the four iEvent.put calls of produce, in order
Puts(ev, r) ==
    <<[instance |-> "",
       table |-> FlatTable(1, "genWeight", TRUE, <<Column("", <<ev.weight>>, <<>>)>>)],
      [instance |-> "LHEScale", table |-> r.outScale],
      [instance |-> "LHEPdf", table |-> r.outPdf],
      [instance |-> "LHENamed", table |-> r.outNamed]>>

\* the value returned by hasIssuedWarning_.exchange(false)
ExchangeFalse(flag) == flag

----------------------------------------------------------------------------
(* The job: construction and the framework's hooks *)

NoConfig == [preferredPDFs |-> <<>>, namedWeightIDs |-> <<>>, namedWeightLabels |-> <<>>]

Init ==
    /\ pc = "new"
    /\ cfg = NoConfig
    /\ hasIssuedWarning_ = FALSE
    /\ lheRunInfo = <<>>
    /\ weightChoice = EmptyChoice
    /\ parsed = [scaleVariationIDs |-> <<>>, pdfSetWeightIDs |-> <<>>]
    /\ streamCache = [s \in Streams |-> <<>>]
    /\ spc = [s \in Streams |-> "idle"]
    /\ runCounter = <<>>
    /\ events = EmptyBag
    /\ lastEvent = <<>>
    /\ warnings = 0
    /\ lastMerge = <<>>
    /\ crashed = FALSE
    /\ runTable = <<>>

GenWeightsTableProducer_NoCheck(c) ==
    /\ pc = "new"
    /\ cfg' = c
    /\ hasIssuedWarning_' = FALSE
    /\ pc' = "constructed"
    /\ UNCHANGED <<lheRunInfo, weightChoice, parsed, streamCache, spc, runCounter, events,
                   lastEvent, warnings, lastMerge, crashed, runTable>>

\* the constructor: the exception of line 121 leaves no module
GenWeightsTableProducer(c) ==
    /\ pc = "new"
    /\ cfg' = c
    /\ hasIssuedWarning_' = FALSE
    /\ pc' = IF Len(c.namedWeightIDs) # Len(c.namedWeightLabels) THEN "failed" ELSE "constructed"
    /\ UNCHANGED <<lheRunInfo, weightChoice, parsed, streamCache, spc, runCounter, events,
                   lastEvent, warnings, lastMerge, crashed, runTable>>

beginStream(s) ==
    /\ pc = "constructed"
    /\ streamCache[s] = <<>>
    /\ streamCache' = [streamCache EXCEPT ![s] = <<Counter>>]
    /\ UNCHANGED <<pc, cfg, hasIssuedWarning_, lheRunInfo, weightChoice, parsed, spc, runCounter,
                   events, lastEvent, warnings, lastMerge, crashed, runTable>>

\* the framework begins a run once the job has begun every stream
CanBeginRun == pc = "constructed" /\ \A s \in Streams : streamCache[s] # <<>>

globalBeginRun(info) ==
    /\ CanBeginRun
    /\ LET r == globalBeginRunResult(info, cfg.preferredPDFs)
       IN  /\ weightChoice' = r.wc
           /\ parsed' = [scaleVariationIDs |-> r.sv, pdfSetWeightIDs |-> r.pdf]
    /\ lheRunInfo' = info
    /\ pc' = "runBegun"
    /\ UNCHANGED <<cfg, hasIssuedWarning_, streamCache, spc, runCounter, events, lastEvent,
                   warnings, lastMerge, crashed, runTable>>

globalBeginRunSummary ==
    /\ pc = "runBegun"
    /\ runCounter' = <<Counter>>
    /\ pc' = "inRun"
    /\ UNCHANGED <<cfg, hasIssuedWarning_, lheRunInfo, weightChoice, parsed, streamCache, spc,
                   events, lastEvent, warnings, lastMerge, crashed, runTable>>

streamBeginRun(s) ==
    /\ pc = "inRun"
    /\ ~crashed
    /\ spc[s] = "idle"
    /\ streamCache' = [streamCache EXCEPT ![s] = <<clear(@[1])>>]
    /\ spc' = [spc EXCEPT ![s] = "inRun"]
    /\ UNCHANGED <<pc, cfg, hasIssuedWarning_, lheRunInfo, weightChoice, parsed, runCounter,
                   events, lastEvent, warnings, lastMerge, crashed, runTable>>

\* stream s is processing the events of the run
CanProduce(s) == pc = "inRun" /\ ~crashed /\ spc[s] = "inRun"

\* produce on stream s for event ev.  The only access to shared mutable state is
\* the one exchange on hasIssuedWarning_, so the call is one atomic step.
produce(s, ev) ==
    /\ CanProduce(s)
    /\ LET r == ProduceResult(streamCache[s][1], weightChoice, cfg, ev)
       IN  /\ streamCache' = [streamCache EXCEPT ![s] = <<r.counter>>]
           /\ lastEvent' = <<[stream |-> s, ev |-> ev, puts |-> Puts(ev, r)]>>
    /\ IF ev.lhe = <<>>
       THEN /\ warnings' = IF ~ExchangeFalse(hasIssuedWarning_) THEN warnings + 1 ELSE warnings
            /\ hasIssuedWarning_' = FALSE
       ELSE UNCHANGED <<warnings, hasIssuedWarning_>>
    /\ events' = events (+) SetToBag({ev})
    /\ UNCHANGED <<pc, cfg, lheRunInfo, weightChoice, parsed, spc, runCounter, lastMerge,
                   crashed, runTable>>

\* the vector lengths merge works on: its own after the resize, and other's
MergeLengths(c, other) ==
    [mine |-> [sumScale |-> Len(MergeResize(c.sumScale, other.sumScale)),
               sumPDF |-> Len(MergeResize(c.sumPDF, other.sumPDF)),
               sumNamed |-> Len(MergeResize(c.sumNamed, other.sumNamed))],
     other |-> [sumScale |-> Len(other.sumScale), sumPDF |-> Len(other.sumPDF),
                sumNamed |-> Len(other.sumNamed)]]

\* streamEndRunSummary: runCounter->merge(*streamCache(id)).  When merge reads
\* past the end of a vector of the stream Counter the read either kills the
\* process or delivers some value.
streamEndRunSummary(s) ==
    /\ pc = "inRun"
    /\ ~crashed
    /\ spc[s] = "inRun"
    /\ spc' = [spc EXCEPT ![s] = "ended"]
    /\ lastMerge' = <<MergeLengths(runCounter[1], streamCache[s][1])>>
    /\ IF MergeReadsPastEnd(runCounter[1], streamCache[s][1])
       THEN \/ /\ crashed' = TRUE
               /\ UNCHANGED runCounter
            \/ /\ \E junk \in Junk :
                      runCounter' = <<merge(runCounter[1], streamCache[s][1], junk)>>
               /\ UNCHANGED crashed
       ELSE /\ runCounter' = <<merge(runCounter[1], streamCache[s][1], 0)>>
            /\ UNCHANGED crashed
    /\ UNCHANGED <<pc, cfg, hasIssuedWarning_, lheRunInfo, weightChoice, parsed, streamCache,
                   events, lastEvent, warnings, runTable>>

globalEndRunSummary ==
    /\ pc = "inRun"
    /\ ~crashed
    /\ \A s \in Streams : spc[s] = "ended"
    /\ pc' = "summed"
    /\ UNCHANGED <<cfg, hasIssuedWarning_, lheRunInfo, weightChoice, parsed, streamCache, spc,
                   runCounter, events, lastEvent, warnings, lastMerge, crashed, runTable>>

CounterTable_NoEmptyCheck(c, labels) ==
    [ints |-> <<[name |-> <<"genEventCount">>, value |-> c.num]>>,
     floats |-> <<[name |-> <<"genEventSumw">>, value |-> c.sumw],
                  [name |-> <<"genEventSumw2">>, value |-> c.sumw2]>>
                \o [i \in 1..Len(labels) |->
                        [name |-> <<"LHESumw_", labels[i]>>,
                         value |-> IF i <= Len(c.sumNamed) THEN c.sumNamed[i] ELSE 0]],
     vfloats |-> <<[name |-> <<"LHEScaleSumw">>, value |-> c.sumScale],
                   [name |-> <<"LHEPdfSumw">>, value |-> c.sumPDF]>>]

\* the MergableCounterTable of globalEndRunProduce
CounterTable(c, labels) ==
    [ints |-> <<[name |-> <<"genEventCount">>, value |-> c.num]>>,
     floats |-> <<[name |-> <<"genEventSumw">>, value |-> c.sumw],
                  [name |-> <<"genEventSumw2">>, value |-> c.sumw2]>>
                \o (IF c.sumNamed # <<>>
                    THEN [i \in 1..Len(labels) |->
                              [name |-> <<"LHESumw_", labels[i]>>, value |-> c.sumNamed[i]]]
                    ELSE <<>>),
     vfloats |-> <<[name |-> <<"LHEScaleSumw">>, value |-> c.sumScale],
                   [name |-> <<"LHEPdfSumw">>, value |-> c.sumPDF]>>]

globalEndRunProduce ==
    /\ pc = "summed"
    /\ runTable' = <<CounterTable(runCounter[1], cfg.namedWeightLabels)>>
    /\ pc' = "produced"
    /\ UNCHANGED <<cfg, hasIssuedWarning_, lheRunInfo, weightChoice, parsed, streamCache, spc,
                   runCounter, events, lastEvent, warnings, lastMerge, crashed>>

globalEndRun ==
    /\ pc = "produced"
    /\ pc' = "runEnded"
    /\ UNCHANGED <<cfg, hasIssuedWarning_, lheRunInfo, weightChoice, parsed, streamCache, spc,
                   runCounter, events, lastEvent, warnings, lastMerge, crashed, runTable>>

----------------------------------------------------------------------------
(* Inputs *)

W1 == <<"1">>
W2 == <<"2">>
W3 == <<"3">>
W4 == <<"4">>
W5 == <<"5">>
W6 == <<"6">>
WX == <<"P", "S">>

Block(tag, lines) == [tag |-> tag, lines |-> lines]

\* in the flat form of a header, the item that starts a block with this tag
TagItem(tag) ==
    [k |-> "tag", name |-> tag, id |-> <<>>, muR |-> <<>>, muF |-> <<>>, lha |-> <<>>]

\* the header blocks of a flat form; lines before the first tag item are dropped
RECURSIVE BlocksOf(_)
BlocksOf(items) ==
    IF items = <<>> THEN <<>>
    ELSE LET front == BlocksOf(SubSeq(items, 1, Len(items) - 1))
             x == items[Len(items)]
         IN  IF x.k = "tag" THEN Append(front, Block(x.name, <<>>))
             ELSE IF front = <<>> THEN <<>>
             ELSE [front EXCEPT ![Len(front)].lines = Append(@, x)]

\* the run product whose header has the flat form f
InfoOf(f) == <<BlocksOf(f)>>

\* the flat forms of at most n lines and tag items in total
FlatHeaders(lines, tags, n) == SeqsUpTo(lines \cup {TagItem(t) : t \in tags}, n)

S1 == ScaleLine(W1, <<"2">>, <<"1">>)
S2 == ScaleLine(W2, <<"1", ".", "0">>, <<"2">>)
S3 == ScaleLine(W3, <<"1">>, <<"2">>)
P4 == PdfLine(W4, <<"1", "0">>)
P5 == PdfLine(W5, <<"1", "1">>)
P6 == PdfLine(W6, <<"1", "0">>)

ScaleFamily ==
    FlatHeaders({OpenLine("scale_variation"), CloseLine, S1, S2, S3}, {"initrwgt", "other"},
                MaxLines)

PdfFamily ==
    FlatHeaders({OpenLine("PDF_variation"), CloseLine, P4, P5, P6}, {"initrwgt", "other"},
                MaxLines)

\* the line lists of a single initrwgt block
ScanFamily ==
    SeqsUpTo({OpenLine("scale_variation"), OpenLine("PDF_variation"), OpenLine("mg_reweighting"),
              CloseLine, TextLine, S1, P4}, MaxLines)

Config(preferred, ids, labels) ==
    [preferredPDFs |-> preferred, namedWeightIDs |-> ids, namedWeightLabels |-> labels]

\* one block with a scale group of two weights and a PDF group of two members
RunHeader ==
    <<<<Block("initrwgt",
              <<OpenLine("scale_variation"), S3, S1, CloseLine,
                OpenLine("PDF_variation"), P4, P5, CloseLine>>)>>>>

\* two initrwgt blocks, each with one scale weight
TwoBlockHeader ==
    <<<<Block("initrwgt", <<OpenLine("scale_variation"), S1>>),
        Block("initrwgt", <<OpenLine("scale_variation"), S3>>)>>>>

RunConfigs ==
    {Config(<<>>, <<>>, <<>>), Config(<<10>>, <<WX>>, <<"isrUp">>), Config(<<>>, <<WX>>, <<>>),
     Config(<<10>>, <<WX, W5>>, <<"isrUp", "fsrUp">>)}

RunInfoChoices == {<<>>, RunHeader}

GenWeights == {-1, 2}

LHEProduct(w0, weights) == [originalXWGTUP |-> w0, weights |-> weights]

Event(w, lhe) == [weight |-> w, lhe |-> lhe]

WeightRecord(id, wgt) == [id |-> id, wgt |-> wgt]

RunEvents ==
    {Event(w, lhe) :
        w \in GenWeights,
        lhe \in {<<>>, <<LHEProduct(2, <<WeightRecord(W3, 4), WeightRecord(W5, 6),
                                         WeightRecord(WX, 8)>>)>>}}

----------------------------------------------------------------------------
(* The run: every hook, events from RunEvents *)

Next ==
    \/ \E c \in RunConfigs : GenWeightsTableProducer(c)
    \/ \E s \in Streams : beginStream(s)
    \/ \E info \in RunInfoChoices : globalBeginRun(info)
    \/ globalBeginRunSummary
    \/ \E s \in Streams : streamBeginRun(s)
    \/ BagCardinality(events) < MaxEvents /\ \E s \in Streams, ev \in RunEvents : produce(s, ev)
    \/ \E s \in Streams : streamEndRunSummary(s)
    \/ globalEndRunSummary
    \/ globalEndRunProduce
    \/ globalEndRun

Spec == Init /\ [][Next]_vars

----------------------------------------------------------------------------
(* Properties of the run *)

\* the sum over the copies of a bag of events of the generator weight
\* (squared when squared is TRUE)
RECURSIVE SumGenWeights(_, _)
SumGenWeights(bag, squared) ==
    IF BagToSet(bag) = {} THEN 0
    ELSE LET e == CHOOSE x \in BagToSet(bag) : TRUE
         IN  (IF squared THEN e.weight * e.weight ELSE e.weight)
                 + SumGenWeights(bag (-) SetToBag({e}), squared)

HasLHE(e) == e.lhe # <<>>

\* the run is past its last merge: the run Counter is what run end reads
AtRunEnd == pc \in {"summed", "produced", "runEnded"}

\* C1: count identity.  The run Counter read at run end, and the genEventCount
\* it is emitted as, equal the number of events processed in the run, however
\* the events were split over the streams and whether or not they carry LHE.
C1_CountIdentity ==
    /\ AtRunEnd => runCounter[1].num = BagCardinality(events)
    /\ runTable # <<>> => runTable[1].ints[1].value = BagCardinality(events)

\* C1 witness: a run table emitted for a run in which two streams each
\* processed events, some with and some without an LHE payload
C1_Witness ==
    /\ runTable # <<>>
    /\ \A s \in Streams : s <= 2 => streamCache[s][1].num > 0
    /\ \E e \in BagToSet(events) : HasLHE(e)
    /\ \E e \in BagToSet(events) : ~HasLHE(e)
    /\ BagCardinality(events) >= 3

\* C2: every merge at stream run end reads the stream Counter's vectors in
\* bounds: after the resize, each of the stream's vectors is at least as long
\* as the run Counter's.
C2_MergeInBounds ==
    lastMerge # <<>> =>
        /\ lastMerge[1].other.sumScale >= lastMerge[1].mine.sumScale
        /\ lastMerge[1].other.sumPDF >= lastMerge[1].mine.sumPDF
        /\ lastMerge[1].other.sumNamed >= lastMerge[1].mine.sumNamed

\* C3: the "No LHEEventProduct" warning is logged at most once in a run.
C3_WarningAtMostOnce == warnings <= 1

\* the Counter of one stream that processes every event of the bag
RECURSIVE OneStreamCounter(_, _, _, _)
OneStreamCounter(counter, wc, config, bag) ==
    IF BagToSet(bag) = {} THEN counter
    ELSE LET e == CHOOSE x \in BagToSet(bag) : TRUE
         IN  OneStreamCounter(ProduceResult(counter, wc, config, e).counter, wc, config,
                              bag (-) SetToBag({e}))

\* C4: merge partition invariance.  At run end the run Counter equals the
\* Counter of a single stream that processed all the events of the run.
C4_PartitionInvariance ==
    AtRunEnd => runCounter[1] = OneStreamCounter(Counter, weightChoice, cfg, events)

\* C5: linearity.  The emitted genEventSumw is the sum of the generator weights
\* of the events of the run and genEventSumw2 the sum of their squares.
C5_Linearity ==
    runTable # <<>> =>
        /\ runTable[1].floats[1].value = SumGenWeights(events, FALSE)
        /\ runTable[1].floats[2].value = SumGenWeights(events, TRUE)

\* C5 witness: a run table for a run with LHE and non-LHE events on two
\* streams whose sum of weights differs from the sum of squared weights
C5_Witness ==
    /\ runTable # <<>>
    /\ \A s \in Streams : s <= 2 => streamCache[s][1].num > 0
    /\ \E e \in BagToSet(events) : HasLHE(e) /\ e.weight = 2
    /\ \E e \in BagToSet(events) : ~HasLHE(e) /\ e.weight = -1
    /\ runTable[1].floats[1].value # runTable[1].floats[2].value

\* C10: every event puts exactly four tables, named genWeight, LHEScaleWeight,
\* LHEPdfWeight and LHEWeight under the instances "", LHEScale, LHEPdf and
\* LHENamed, with or without an LHE payload.
C10_FourTables ==
    lastEvent # <<>> =>
        /\ [i \in 1..Len(lastEvent[1].puts) |-> lastEvent[1].puts[i].instance]
               = <<"", "LHEScale", "LHEPdf", "LHENamed">>
        /\ [i \in 1..Len(lastEvent[1].puts) |-> lastEvent[1].puts[i].table.name]
               = <<"genWeight", "LHEScaleWeight", "LHEPdfWeight", "LHEWeight">>

----------------------------------------------------------------------------
(* One event on the first stream, drawn from all LHE weight lists of up to
   MaxWeights records *)

EventConfigs ==
    {Config(<<>>, <<>>, <<>>), Config(<<10>>, <<WX>>, <<"isrUp">>),
     Config(<<10>>, <<WX, WX>>, <<"isrUp", "fsrUp">>)}

EventInfoChoices == {<<>>, RunHeader, TwoBlockHeader}

EventWeightRecords == {WeightRecord(id, wgt) : id \in {W1, W4, WX, W6}, wgt \in {2, 4}}

RichEvents ==
    {Event(w, lhe) :
        w \in GenWeights,
        lhe \in {<<>>} \cup {<<LHEProduct(w0, ws)>> :
                                w0 \in {1, 2}, ws \in SeqsUpTo(EventWeightRecords, MaxWeights)}}

NextEvent ==
    \/ \E c \in EventConfigs : GenWeightsTableProducer(c)
    \/ \E s \in Streams : beginStream(s)
    \/ \E info \in EventInfoChoices : globalBeginRun(info)
    \/ globalBeginRunSummary
    \/ streamBeginRun(1)
    \/ CanProduce(1) /\ lastEvent = <<>> /\ \E ev \in RichEvents : produce(1, ev)

SpecEvent == Init /\ [][NextEvent]_vars

\* the value emitted at position i of the ID vector ids is the quotient of an
\* event weight with that id when the event has one, and 1 otherwise
Normalized(ids, values, lheProd) ==
    /\ Len(values) = Len(ids)
    /\ \A i \in 1..Len(ids) :
           LET M == {j \in 1..Len(lheProd.weights) : lheProd.weights[j].id = ids[i]}
           IN  IF M = {} THEN values[i] = 1
               ELSE \E j \in M :
                        values[i] * lheProd.originalXWGTUP = lheProd.weights[j].wgt

\* C6: normalization.  For an event with an LHE payload, every position of the
\* LHEScaleWeight, LHEPdfWeight and LHEWeight columns holds wgt/originalXWGTUP
\* of the event weight with the position's configured id, or 1 when the event
\* has no weight with that id; also for ID vectors that repeat an identifier.
C6_Normalization ==
    (lastEvent # <<>> /\ lastEvent[1].ev.lhe # <<>>) =>
        LET lheProd == lastEvent[1].ev.lhe[1]
            named == lastEvent[1].puts[4].table.columns
        IN  /\ Normalized(weightChoice.scaleWeightIDs,
                          lastEvent[1].puts[2].table.columns[1].values, lheProd)
            /\ Normalized(weightChoice.pdfWeightIDs,
                          lastEvent[1].puts[3].table.columns[1].values, lheProd)
            /\ Normalized(cfg.namedWeightIDs,
                          [i \in 1..(Len(named) - 1) |-> named[i + 1].values[1]], lheProd)

----------------------------------------------------------------------------
(* Run begin alone, on every header of a family *)

SetMin(S) == CHOOSE x \in S : \A y \in S : x <= y

NextScale ==
    \/ GenWeightsTableProducer(Config(<<>>, <<>>, <<>>))
    \/ \E s \in Streams : beginStream(s)
    \/ globalBeginRun(<<>>)
    \/ CanBeginRun /\ \E f \in ScaleFamily : globalBeginRun(InfoOf(f))

SpecScale == Init /\ [][NextScale]_vars

NextPdf ==
    \/ \E preferred \in {<<>>, <<30, 10, 11>>, <<11, 10>>} : GenWeightsTableProducer(Config(preferred, <<>>, <<>>))
    \/ \E s \in Streams : beginStream(s)
    \/ CanBeginRun /\ \E f \in PdfFamily : globalBeginRun(InfoOf(f))

SpecPdf == Init /\ [][NextPdf]_vars

NextScan ==
    \/ GenWeightsTableProducer(Config(<<10>>, <<>>, <<>>))
    \/ \E s \in Streams : beginStream(s)
    \/ CanBeginRun /\ \E lines \in ScanFamily : globalBeginRun(<<<<Block("initrwgt", lines)>>>>)

SpecScan == Init /\ [][NextScan]_vars

IsWeightLine(line) == line.k \in {"scalew", "pdfw"}

\* line i lies after a group opener with no closer in between
InsideGroup(lines, i) ==
    \E o \in 1..(i - 1) :
        /\ lines[o].k = "weightgroup"
        /\ \A m \in (o + 1)..(i - 1) : lines[m].k # "endweightgroup"

\* the first opener or closer after line k, if any, is an opener
NextIsOpenerOrEnd(lines, k) ==
    LET after == {m \in (k + 1)..Len(lines) : lines[m].k \in {"weightgroup", "endweightgroup"}}
    IN  after = {} \/ lines[SetMin(after)].k = "weightgroup"

RemoveAt(seq, k) == SubSeq(seq, 1, k - 1) \o SubSeq(seq, k + 1, Len(seq))

\* C7: implicit close.  In a block whose weight lines all lie inside groups,
\* deleting a closer that is followed, before any other closer, by an opener
\* or by the end of the block gives the same WeightChoice.
C7_ImplicitClose ==
    (pc = "runBegun" /\ lheRunInfo # <<>>) =>
        \A b \in 1..Len(lheRunInfo[1]) :
            LET lines == lheRunInfo[1][b].lines
            IN  (/\ lheRunInfo[1][b].tag = "initrwgt"
                 /\ \A i \in 1..Len(lines) : IsWeightLine(lines[i]) => InsideGroup(lines, i)) =>
                    \A k \in 1..Len(lines) :
                        (lines[k].k = "endweightgroup" /\ NextIsOpenerOrEnd(lines, k)) =>
                            globalBeginRunResult(
                                <<[lheRunInfo[1] EXCEPT ![b].lines = RemoveAt(lines, k)]>>,
                                cfg.preferredPDFs).wc = weightChoice

\* C7 witness: a scale group with a collected weight whose closer is followed
\* by the opener of a PDF group with a collected, selected weight
C7_Witness ==
    /\ pc = "runBegun"
    /\ lheRunInfo # <<>>
    /\ Len(lheRunInfo[1]) = 1
    /\ LET lines == lheRunInfo[1][1].lines
       IN  /\ Len(lines) = 5
           /\ lines[1] = OpenLine("scale_variation")
           /\ lines[3] = CloseLine
           /\ lines[4] = OpenLine("PDF_variation")
    /\ weightChoice.scaleWeightIDs = <<W1>>
    /\ weightChoice.pdfWeightIDs = <<W4>>

\* C8: PDF priority.  pdfWeightIDs is the identifier list of the first
\* collected group that starts at the earliest preferred LHA id at which any
\* collected group starts; with no such id, pdfWeightIDs and pdfWeightsDoc are
\* empty.
C8_PdfPriority ==
    pc = "runBegun" =>
        LET G == parsed.pdfSetWeightIDs
            preferred == cfg.preferredPDFs
            StartsAt(p) == {g \in 1..Len(G) : G[g].lhaIDs[1] = p}
            P == {j \in 1..Len(preferred) : StartsAt(preferred[j]) # {}}
        IN  IF P = {}
            THEN weightChoice.pdfWeightIDs = <<>> /\ weightChoice.pdfWeightsDoc = <<>>
            ELSE weightChoice.pdfWeightIDs = G[SetMin(StartsAt(preferred[SetMin(P)]))].wids

\* C8 witness: preferred [A, B, C] = [30, 10, 11], collected groups starting at
\* C and then at B and none at A, and the group at B selected
C8_Witness ==
    /\ pc = "runBegun"
    /\ cfg.preferredPDFs = <<30, 10, 11>>
    /\ Len(parsed.pdfSetWeightIDs) = 2
    /\ parsed.pdfSetWeightIDs[1].lhaIDs[1] = 11
    /\ parsed.pdfSetWeightIDs[2].lhaIDs[1] = 10
    /\ weightChoice.pdfWeightIDs = parsed.pdfSetWeightIDs[2].wids
    /\ weightChoice.pdfWeightIDs # <<>>

\* a comes no later than b in ascending (muR, muF) order, identifier as tiebreak
OrderedPair(a, b) ==
    \/ a.scales[1] < b.scales[1]
    \/ a.scales[1] = b.scales[1] /\ a.scales[2] < b.scales[2]
    \/ a.scales = b.scales /\ ~StrLess(b.wid, a.wid)

\* C9: scale ordering.  The identifiers of scaleWeightIDs are in ascending
\* order of the (muR, muF) of their collected weights, identifier as tiebreak.
C9_ScaleOrdering ==
    pc = "runBegun" =>
        LET ids == weightChoice.scaleWeightIDs
            W == {parsed.scaleVariationIDs[n] : n \in 1..Len(parsed.scaleVariationIDs)}
        IN  \A i \in 1..Len(ids) : \A j \in (i + 1)..Len(ids) :
                \E a \in W, b \in W : a.wid = ids[i] /\ b.wid = ids[j] /\ OrderedPair(a, b)

----------------------------------------------------------------------------
(* Variation sums of the run *)

\* the normalized variation values emitted for event e, which has an LHE
\* payload: the LHEScaleWeight and LHEPdfWeight columns and the named columns
\* of LHEWeight, in the order of the configured named weights
Emitted(e) ==
    LET r == fillLHEWeightTables(Counter, weightChoice, cfg, e.weight, e.lhe[1])
    IN  [sumScale |-> r.outScale.columns[1].values,
         sumPDF |-> r.outPdf.columns[1].values,
         sumNamed |-> [i \in 1..(Len(r.outNamed.columns) - 1) |->
                           r.outNamed.columns[i + 1].values[1]]]

\* the sum, over the copies in a bag of the events that carry an LHE payload,
\* of the generator weight times the value emitted at position i of a vector
RECURSIVE SumVariation(_, _, _)
SumVariation(bag, vector, i) ==
    IF BagToSet(bag) = {} THEN 0
    ELSE LET e == CHOOSE x \in BagToSet(bag) : TRUE
         IN  (IF HasLHE(e) THEN e.weight * Emitted(e)[vector][i] ELSE 0)
                 + SumVariation(bag (-) SetToBag({e}), vector, i)

VariationVectors == {"sumScale", "sumPDF", "sumNamed"}

\* C11: variation sums.  At run end every position i of sumScale, sumPDF and
\* sumNamed of the run Counter holds the sum, over the events of the run with
\* an LHE payload, of the generator weight times the normalized value emitted
\* for the event at position i; a run with such an event has one position per
\* emitted value, and a run without one has all three vectors empty.
C11_VariationSums ==
    AtRunEnd =>
        \A vector \in VariationVectors :
            LET sum == runCounter[1][vector]
                lhe == {e \in BagToSet(events) : HasLHE(e)}
            IN  /\ \A i \in 1..Len(sum) : sum[i] = SumVariation(events, vector, i)
                /\ \A e \in lhe : Len(sum) = Len(Emitted(e)[vector])
                /\ lhe = {} => sum = <<>>

----------------------------------------------------------------------------
(* Run-end emission of the named sums *)

\* the scalar fields of the run table after genEventSumw and genEventSumw2
NamedFields == SubSeq(runTable[1].floats, 3, Len(runTable[1].floats))

\* C12: run-end emission of named sums.  At run end sumNamed of the run
\* Counter is empty or has one element per configured label; the run table
\* has LHESumw_<label> fields exactly when sumNamed is non-empty, and then one
\* per configured label, in order, with value sumNamed[i].
C12_NamedSumFields ==
    /\ AtRunEnd => Len(runCounter[1].sumNamed) \in {0, Len(cfg.namedWeightLabels)}
    /\ runTable # <<>> =>
           IF runCounter[1].sumNamed = <<>> THEN NamedFields = <<>>
           ELSE /\ Len(NamedFields) = Len(cfg.namedWeightLabels)
                /\ Len(NamedFields) > 0
                /\ \A i \in 1..Len(NamedFields) :
                       /\ NamedFields[i].name = <<"LHESumw_", cfg.namedWeightLabels[i]>>
                       /\ NamedFields[i].value = runCounter[1].sumNamed[i]

\* C12 witness: run tables are emitted for a run with two configured labels
\* and two different named sums
C12_Witness ==
    /\ runTable # <<>>
    /\ Len(cfg.namedWeightLabels) = 2
    /\ Len(NamedFields) = 2
    /\ NamedFields[1].value # NamedFields[2].value

----------------------------------------------------------------------------
(* Construction *)

\* no stream, run or event hook has acted
NoHookHasRun ==
    /\ \A s \in Streams : streamCache[s] = <<>> /\ spc[s] = "idle"
    /\ lheRunInfo = <<>>
    /\ weightChoice = EmptyChoice
    /\ parsed = [scaleVariationIDs |-> <<>>, pdfSetWeightIDs |-> <<>>]
    /\ runCounter = <<>>
    /\ events = EmptyBag
    /\ lastEvent = <<>>
    /\ warnings = 0
    /\ lastMerge = <<>>
    /\ runTable = <<>>

\* C13: configuration error.  Once construction has been attempted it has
\* failed exactly when namedWeightIDs and namedWeightLabels differ in length;
\* after a failed construction no hook has acted, and after a successful one
\* the two lists have equal length.
C13_ConfigurationError ==
    /\ pc # "new" =>
           (pc = "failed" <=> Len(cfg.namedWeightIDs) # Len(cfg.namedWeightLabels))
    /\ pc = "failed" => NoHookHasRun
    /\ pc \notin {"new", "failed"} => Len(cfg.namedWeightIDs) = Len(cfg.namedWeightLabels)

\* C13 witness: construction failed on one named id and no label
C13_Witness ==
    /\ pc = "failed"
    /\ Len(cfg.namedWeightIDs) = 1
    /\ Len(cfg.namedWeightLabels) = 0

----------------------------------------------------------------------------
(* Several runs, one after another, on the same streams *)

\* globalBeginRun of a later run.  The framework has released the RunCache
\* and the RunSummaryCache of the finished run and no stream has begun the new
\* run; each StreamCache still holds the Counter its stream was left with.
globalBeginNextRun(info) ==
    /\ pc = "runEnded"
    /\ LET r == globalBeginRunResult(info, cfg.preferredPDFs)
       IN  /\ weightChoice' = r.wc
           /\ parsed' = [scaleVariationIDs |-> r.sv, pdfSetWeightIDs |-> r.pdf]
    /\ lheRunInfo' = info
    /\ pc' = "runBegun"
    /\ spc' = [s \in Streams |-> "idle"]
    /\ runCounter' = <<>>
    /\ events' = EmptyBag
    /\ lastEvent' = <<>>
    /\ warnings' = 0
    /\ lastMerge' = <<>>
    /\ runTable' = <<>>
    /\ UNCHANGED <<cfg, hasIssuedWarning_, streamCache, crashed>>

RunsEvents ==
    {Event(2, <<>>),
     Event(2, <<LHEProduct(2, <<WeightRecord(W3, 4), WeightRecord(W5, 6),
                                WeightRecord(WX, 8)>>)>>)}

NextRuns ==
    \/ GenWeightsTableProducer(Config(<<10>>, <<WX>>, <<"isrUp">>))
    \/ \E s \in Streams : beginStream(s)
    \/ \E info \in RunInfoChoices : globalBeginRun(info)
    \/ \E info \in RunInfoChoices : globalBeginNextRun(info)
    \/ globalBeginRunSummary
    \/ \E s \in Streams : streamBeginRun(s)
    \/ BagCardinality(events) < MaxEvents /\ \E s \in Streams, ev \in RunsEvents : produce(s, ev)
    \/ \E s \in Streams : streamEndRunSummary(s)
    \/ globalEndRunSummary
    \/ globalEndRunProduce
    \/ globalEndRun

SpecRuns == Init /\ [][NextRuns]_vars

\* C14: run isolation.  In every run of a sequence of runs on the same
\* streams: the run Counter is empty until the first stream is merged, a
\* stream that has begun the run has an empty Counter until an event of the
\* run is processed, and at run end the run Counter is the Counter of a single
\* stream that processed exactly the events of this run.
C14_RunIsolation ==
    /\ (pc = "inRun" /\ \A s \in Streams : spc[s] # "ended") => runCounter[1] = Counter
    /\ \A s \in Streams :
           (spc[s] = "inRun" /\ events = EmptyBag) => streamCache[s][1] = Counter
    /\ AtRunEnd => runCounter[1] = OneStreamCounter(Counter, weightChoice, cfg, events)

\* the lengths of the vectors of Counter c fit the WeightChoice of the run and
\* the configuration, and a Counter that counted no event is all zero and empty
CounterShape(c) ==
    /\ Len(c.sumScale) \in {0, Len(weightChoice.scaleWeightIDs)}
    /\ Len(c.sumPDF) \in {0, Len(weightChoice.pdfWeightIDs)}
    /\ Len(c.sumNamed) \in {0, Len(cfg.namedWeightIDs)}
    /\ c.num = 0 =>
           /\ c.sumw = 0
           /\ c.sumw2 = 0
           /\ c.sumScale = <<>> /\ c.sumPDF = <<>> /\ c.sumNamed = <<>>

----------------------------------------------------------------------------
(* The weight lines of a header, by the position of the lines alone *)

\* line i of a block lies after an opener of a group called name, with no
\* opener and no closer in between
InScope(lines, i, name) ==
    \E o \in 1..(i - 1) :
        /\ lines[o].k = "weightgroup"
        /\ lines[o].name = name
        /\ \A m \in (o + 1)..(i - 1) : lines[m].k \notin {"weightgroup", "endweightgroup"}

\* the (block, line) positions of the lines of kind k of the initrwgt blocks of
\* a header that lie in the scope of a group called name
LinesInScope(blocks, k, name) ==
    {p \in UNION {{<<b, i>> : i \in 1..Len(blocks[b].lines)} : b \in 1..Len(blocks)} :
        /\ blocks[p[1]].tag = "initrwgt"
        /\ blocks[p[1]].lines[p[2]].k = k
        /\ InScope(blocks[p[1]].lines, p[2], name)}

\* C16: scale identifiers are listed once.  After globalBeginRun on a header,
\* scaleWeightIDs has one position per scale weight line that lies in a
\* scale_variation group of an initrwgt block, and holds each identifier as
\* many times as such lines carry it.
C16_ScaleIDsListedOnce ==
    (pc = "runBegun" /\ lheRunInfo # <<>>) =>
        LET blocks == lheRunInfo[1]
            ids == weightChoice.scaleWeightIDs
            S == LinesInScope(blocks, "scalew", "scale_variation")
        IN  /\ Len(ids) = Cardinality(S)
            /\ \A p \in S :
                   LET id == blocks[p[1]].lines[p[2]].id
                   IN  Cardinality({i \in 1..Len(ids) : ids[i] = id})
                           = Cardinality({q \in S : blocks[q[1]].lines[q[2]].id = id})

\* among the first n lines of a block, those of kind k in the scope of a group
\* called name, in the order of the block
RECURSIVE ScopedLines(_, _, _, _)
ScopedLines(lines, k, name, n) ==
    IF n = 0 THEN <<>>
    ELSE ScopedLines(lines, k, name, n - 1)
             \o (IF lines[n].k = k /\ InScope(lines, n, name) THEN <<lines[n]>> ELSE <<>>)

\* the identifier lists of a list of PDF groups, one after the other
RECURSIVE AllWids(_)
AllWids(groups) == IF groups = <<>> THEN <<>> ELSE Head(groups).wids \o AllWids(Tail(groups))

\* C17: group scoping of the scanner.  After the scan of a block, the scale
\* weights collected are those of the scale weight lines in the scope of a
\* scale_variation group, and the PDF weights collected are, in order, those
\* of the PDF weight lines in the scope of a PDF_variation group; weight lines
\* outside every group, in a group of another name or of the other kind than
\* their group give nothing to the WeightChoice.
C17_GroupScoping ==
    (pc = "runBegun" /\ lheRunInfo # <<>> /\ Len(lheRunInfo[1]) = 1) =>
        LET lines == lheRunInfo[1][1].lines
            scale == ScopedLines(lines, "scalew", "scale_variation", Len(lines))
            pdf == ScopedLines(lines, "pdfw", "PDF_variation", Len(lines))
        IN  /\ parsed.scaleVariationIDs
                   = SortScale([i \in 1..Len(scale) |-> ScaleVarWeight(scale[i])])
            /\ AllWids(parsed.pdfSetWeightIDs) = [i \in 1..Len(pdf) |-> pdf[i].id]
            /\ Len(weightChoice.scaleWeightIDs) = Len(scale)
            /\ \A i \in 1..Len(weightChoice.scaleWeightIDs) :
                   \E j \in 1..Len(scale) : weightChoice.scaleWeightIDs[i] = scale[j].id
            /\ scale = <<>> => weightChoice.scaleWeightsDoc = <<>>
            /\ \A i \in 1..Len(weightChoice.pdfWeightIDs) :
                   \E j \in 1..Len(pdf) : weightChoice.pdfWeightIDs[i] = pdf[j].id
            /\ pdf = <<>> => weightChoice.pdfWeightIDs = <<>> /\ weightChoice.pdfWeightsDoc = <<>>

\* C17 witness: a block with a collected scale weight and a collected PDF
\* weight, and with a PDF weight line inside the scale_variation group that is
\* not collected
C17_Witness ==
    /\ pc = "runBegun"
    /\ lheRunInfo # <<>>
    /\ Len(lheRunInfo[1]) = 1
    /\ LET lines == lheRunInfo[1][1].lines
       IN  \E i \in 1..Len(lines) :
               /\ lines[i].k = "pdfw"
               /\ InScope(lines, i, "scale_variation")
    /\ Len(parsed.scaleVariationIDs) = 1
    /\ Len(parsed.pdfSetWeightIDs) = 1
    /\ weightChoice.scaleWeightIDs = <<W1>>
    /\ weightChoice.pdfWeightIDs = <<W4>>

----------------------------------------------------------------------------
(* The iterations of the scan of a block *)

\* the iterations of the scan of a block of n lines, cut after 2n + 2
ScanTraceOf(lines) == ScanTrace(lines, ScanStart(<<>>, <<>>), 2 * Len(lines) + 2)

\* iteration n of trace T reads a line
ReadsLine(lines, T, n) == n < Len(T) /\ T[n].iLine < Len(lines)

\* iteration n is one of the outer loop that dispatches on an opener
IsDispatch(lines, T, n) ==
    /\ ReadsLine(lines, T, n)
    /\ T[n].loop = "outer"
    /\ lines[T[n].iLine + 1].k = "weightgroup"

\* iteration n is one of an inner loop that meets an opener and rewinds
IsRewind(lines, T, n) ==
    /\ ReadsLine(lines, T, n)
    /\ T[n].loop # "outer"
    /\ lines[T[n].iLine + 1].k = "weightgroup"

\* C18: the header scan terminates.  On a block of n lines the loops end
\* within 2n + 2 iterations; iLine is never below 0 and no iteration reads
\* past the last line; every opener line is dispatched by the outer loop
\* exactly once; and the iteration after a rewind is a dispatch by the outer
\* loop on the opener met, which lies after the opener of the group it closes.
C18_ScanTerminates ==
    (pc = "runBegun" /\ lheRunInfo # <<>> /\ Len(lheRunInfo[1]) = 1) =>
        LET lines == lheRunInfo[1][1].lines
            T == ScanTraceOf(lines)
        IN  /\ T[Len(T)].done
            /\ T[Len(T)].pdf = parsed.pdfSetWeightIDs
            /\ \A n \in 1..Len(T) : T[n].iLine >= 0 /\ T[n].iLine <= Len(lines) + 1
            /\ \A n \in 1..(Len(T) - 1) :
                   T[n].iLine >= Len(lines) => T[n + 1].done \/ T[n + 1].loop = "outer"
            /\ \A o \in 1..Len(lines) :
                   lines[o].k = "weightgroup" =>
                       Cardinality({n \in 1..Len(T) :
                                        IsDispatch(lines, T, n) /\ T[n].iLine + 1 = o}) = 1
            /\ \A n \in 1..Len(T) :
                   IsRewind(lines, T, n) =>
                       /\ IsDispatch(lines, T, n + 1)
                       /\ T[n + 1].iLine = T[n].iLine
                       /\ \A m \in 1..(n - 1) :
                              IsDispatch(lines, T, m) => T[m].iLine < T[n + 1].iLine

\* C18 witness: a block of MaxLines lines in which a group is closed by the
\* opener of the next group and the last group, with a collected weight, is
\* left open at the end of the block
C18_Witness ==
    /\ pc = "runBegun"
    /\ lheRunInfo # <<>>
    /\ Len(lheRunInfo[1]) = 1
    /\ LET lines == lheRunInfo[1][1].lines
           T == ScanTraceOf(lines)
       IN  /\ Len(lines) = MaxLines
           /\ \E n \in 1..Len(T) : IsRewind(lines, T, n)
           /\ lines[Len(lines)].k = "pdfw"
           /\ \A i \in 1..Len(lines) : lines[i].k # "endweightgroup"
    /\ weightChoice.pdfWeightIDs = <<W4>>

----------------------------------------------------------------------------
(* The PDF groups of a header *)

\* the PDF weight lines in the scope of a PDF_variation group, over the
\* initrwgt blocks of a header, in header order
RECURSIVE CollectedPdfLines(_)
CollectedPdfLines(blocks) ==
    IF blocks = <<>> THEN <<>>
    ELSE (IF Head(blocks).tag = "initrwgt"
          THEN ScopedLines(Head(blocks).lines, "pdfw", "PDF_variation", Len(Head(blocks).lines))
          ELSE <<>>)
             \o CollectedPdfLines(Tail(blocks))

\* the number of identifiers in the groups before group g
RECURSIVE WidsBefore(_, _)
WidsBefore(groups, g) ==
    IF g <= 1 THEN 0 ELSE WidsBefore(groups, g - 1) + Len(groups[g - 1].wids)

\* C19: PDF grouping invariant.  After the scan of a header, with L the
\* collected PDF weight lines in header order: the identifier lists of the
\* groups, one after the other, are the identifiers of L; every group has
\* last - first + 1 identifiers, the k-th (from 0) being that of the line it
\* stands for, whose LHA id is first + k; and a group other than the first
\* starts at a line whose LHA id is not last + 1 of the group before.
C19_PdfGrouping ==
    (pc = "runBegun" /\ lheRunInfo # <<>>) =>
        LET L == CollectedPdfLines(lheRunInfo[1])
            G == parsed.pdfSetWeightIDs
        IN  /\ AllWids(G) = [i \in 1..Len(L) |-> L[i].id]
            /\ \A g \in 1..Len(G) :
                   /\ Len(G[g].wids) = G[g].lhaIDs[2] - G[g].lhaIDs[1] + 1
                   /\ Len(G[g].wids) >= 1
                   /\ \A k \in 1..Len(G[g].wids) :
                          LET line == L[WidsBefore(G, g) + k]
                          IN  /\ line.id = G[g].wids[k]
                              /\ stoi(line.lha) = G[g].lhaIDs[1] + (k - 1)
                   /\ g > 1 => G[g].lhaIDs[1] # G[g - 1].lhaIDs[2] + 1

\* C19 witness: lines with LHA ids 10, 11, 10 collected into a group of two
\* identifiers and a new group of one
C19_Witness ==
    /\ pc = "runBegun"
    /\ Len(parsed.pdfSetWeightIDs) = 2
    /\ parsed.pdfSetWeightIDs[1] = [wids |-> <<W4, W5>>, lhaIDs |-> <<10, 11>>]
    /\ parsed.pdfSetWeightIDs[2] = [wids |-> <<W6>>, lhaIDs |-> <<10, 10>>]

----------------------------------------------------------------------------
(* Frame of event processing *)

\* the step processes one event: produce, and only produce, adds to the events
\* of the run, and records the stream and the event
EventStep == events' # events

\* C20: frame of event processing.  A step that processes one event on stream
\* s leaves the Counters of the other streams, the run Counter and the
\* WeightChoice unchanged; for an event without LHE payload it adds to num,
\* sumw and sumw2 of stream s's Counter and leaves its three vectors as they
\* were.  A run without an LHE event ends with all three vectors empty.
C20_EventFrame ==
    /\ [][EventStep =>
              LET s == lastEvent'[1].stream
                  ev == lastEvent'[1].ev
                  old == streamCache[s][1]
                  new == streamCache'[s][1]
              IN  /\ \A t \in Streams \ {s} : streamCache'[t] = streamCache[t]
                  /\ runCounter' = runCounter
                  /\ weightChoice' = weightChoice
                  /\ new.num = old.num + 1
                  /\ ev.lhe = <<>> =>
                         /\ new.sumw = old.sumw + ev.weight
                         /\ new.sumw2 = old.sumw2 + (ev.weight * ev.weight)
                         /\ new.sumScale = old.sumScale
                         /\ new.sumPDF = old.sumPDF
                         /\ new.sumNamed = old.sumNamed]_vars
    /\ []((AtRunEnd /\ \A e \in BagToSet(events) : ~HasLHE(e)) =>
              /\ runCounter[1].sumScale = <<>>
              /\ runCounter[1].sumPDF = <<>>
              /\ runCounter[1].sumNamed = <<>>)

\* C20 witness: stream 2 has just processed an event without LHE payload
\* after one with, while stream 1 and the run's WeightChoice hold values
C20_Witness ==
    /\ lastEvent # <<>>
    /\ lastEvent[1].stream = 2
    /\ lastEvent[1].ev.lhe = <<>>
    /\ streamCache[2][1].num >= 2
    /\ Len(streamCache[2][1].sumScale) = 2
    /\ Len(streamCache[2][1].sumNamed) = 2
    /\ streamCache[1][1].num > 0
    /\ weightChoice.scaleWeightIDs # <<>>

----------------------------------------------------------------------------
(* Identifiers that an event carries more than once *)

\* at every position of the ID vector ids whose identifier the event carries
\* more than once, the value is the quotient of the last such weight
LastOccurrenceWins(ids, values, lheProd) ==
    /\ Len(values) = Len(ids)
    /\ \A i \in 1..Len(ids) :
           LET M == {j \in 1..Len(lheProd.weights) : lheProd.weights[j].id = ids[i]}
           IN  Cardinality(M) >= 2 =>
                   LET last == CHOOSE j \in M : \A m \in M : m <= j
                   IN  values[i] * lheProd.originalXWGTUP = lheProd.weights[last].wgt

\* C21: duplicate identifiers in an event.  When the weight list of an event
\* holds an id more than once, every position of scaleWeightIDs, pdfWeightIDs
\* and namedWeightIDs configured with that id emits wgt/originalXWGTUP of the
\* last occurrence of the id in the list.
C21_LastOccurrenceWins ==
    (lastEvent # <<>> /\ lastEvent[1].ev.lhe # <<>>) =>
        LET lheProd == lastEvent[1].ev.lhe[1]
            named == lastEvent[1].puts[4].table.columns
        IN  /\ LastOccurrenceWins(weightChoice.scaleWeightIDs,
                                  lastEvent[1].puts[2].table.columns[1].values, lheProd)
            /\ LastOccurrenceWins(weightChoice.pdfWeightIDs,
                                  lastEvent[1].puts[3].table.columns[1].values, lheProd)
            /\ LastOccurrenceWins(cfg.namedWeightIDs,
                                  [i \in 1..(Len(named) - 1) |-> named[i + 1].values[1]],
                                  lheProd)

----------------------------------------------------------------------------
(* The doc string of the scale weights *)

\* the label of the collected scale weight with identifier id
LabelOfID(id) ==
    LET n == CHOOSE m \in 1..Len(parsed.scaleVariationIDs) :
                 parsed.scaleVariationIDs[m].wid = id
    IN  parsed.scaleVariationIDs[n].label

\* "[0] is LABEL0; [1] is LABEL1; ..." for the first n positions of ids
RECURSIVE DocEntries(_, _)
DocEntries(ids, n) ==
    IF n = 0 THEN <<>>
    ELSE DocEntries(ids, n - 1)
             \o (IF n > 1 THEN <<";", " ">> ELSE <<>>)
             \o <<"[">> \o Dec(n - 1) \o <<"]", " ", "i", "s", " ">> \o LabelOfID(ids[n])

\* C22: scale doc string.  When a scale weight is collected, scaleWeightsDoc
\* is "LHE scale variation weights (w_var / w_nominal); " followed by one
\* entry "[i] is LABELi" per position of scaleWeightIDs, joined by "; "; when
\* none is collected, scaleWeightsDoc and scaleWeightIDs are empty.
C22_ScaleDoc ==
    pc = "runBegun" =>
        IF parsed.scaleVariationIDs = <<>>
        THEN weightChoice.scaleWeightsDoc = <<>> /\ weightChoice.scaleWeightIDs = <<>>
        ELSE weightChoice.scaleWeightsDoc
                 = ScaleDocInit
                       \o DocEntries(weightChoice.scaleWeightIDs,
                                     Len(weightChoice.scaleWeightIDs))

====
